---- MODULE Spec2Model ----
(***************************************************************************)
(* Fable Book Explorer (src/app.py): the paginated fetch with its cache    *)
(* and session snapshot, the normalisation of raw book records into rows,  *)
(* the search / genre filter and the sort of the view, and the genre       *)
(* colours used by the legend, the table, the gallery and the export.      *)
(*                                                                         *)
(* Python values: a dict is a function whose DOMAIN is its set of keys, a  *)
(* list is a sequence, None is the string None below, and an optional      *)
(* object (DataFrame, datetime) is <<>> when None and <<v>> otherwise.     *)
(***************************************************************************)
EXTENDS Integers, Sequences, FiniteSets, TLC

VARIABLES
    cache,       \* st.cache_data store of fetch_all_books: <<>> or <<rows>>
    books_df,    \* st.session_state.books_df: <<>> (None) or <<rows>>
    pc,          \* position of the script: "idle", "get" (before requests.get), "wait"
    url,         \* local url of fetch_all_books
    all_books,   \* local all_books of fetch_all_books
    inflight,    \* requests issued and not yet answered
    requests,    \* history: URLs requested by the current call
    served,      \* history: responses received by the current call
    outcome,     \* how the last fetch_all_books call ended
    ret,         \* value returned by the last call: <<>> or <<rows>>
    view,        \* last run of the filter / sort section of the script
    rng,         \* state of the module-level generator of `random`
    colorLog,    \* history: genre -> colours color_from_genre has returned for it
    paint        \* last run of the colour consumers (legend, table, export, gallery)

vars == <<cache, books_df, pc, url, all_books, inflight, requests, served,
          outcome, ret, view, rng, colorLog, paint>>

fetchVars == <<cache, books_df, pc, url, all_books, inflight, requests, served,
               outcome, ret>>

(***************************************************************************)
(* Bounds of the model.                                                    *)
(***************************************************************************)
MaxBooks == 3        \* records one fetch may accumulate
MaxRows == 3         \* rows of a snapshot in the view specification

(***************************************************************************)
(* Python values.                                                          *)
(***************************************************************************)
None == "None"
EmptyDict == <<>>
NoDF == <<>>
DF(rows) == <<rows>>

\* dict.get(k, dflt)
Get(d, k, dflt) == IF k \in DOMAIN d THEN d[k] ELSE dflt

\* truthiness of a text-or-None value
Truthy(v) == v # None /\ v # ""

BASE_URL ==
    "https://api.fable.co/api/v2/users/0c031026-9f1f-4a02-889c-79d2bdb11781/book_lists/33f803be-3e8d-4ed6-bd19-79a330d2bb32/books"
\* a URL a page names as its `next`
PAGE2_URL == BASE_URL \o "?page=2"

(***************************************************************************)
(* Raw book records of the API (the `book` dicts of a page's results).     *)
(***************************************************************************)
DuneBook ==
    [id |-> "b1", title |-> "Dune", subtitle |-> "A novel",
     authors |-> <<[name |-> "Herbert"]>>,
     genres |-> <<[name |-> "SciFi"], [name |-> "Classic"]>>,
     page_count |-> "412", isbn |-> "9780441172719",
     published_date |-> "1965-08-01", imprint |-> "Ace",
     cover_image |-> "https://img.fable.co/b1.jpg",
     started_reading_at |-> "2020-12-01T00:00:00Z",
     finished_reading_at |-> "2021-01-01T00:00:00Z"]

EmmaBook ==
    [id |-> "b2", title |-> "Emma",
     authors |-> <<[name |-> "Austen"], [name |-> "Herbert"]>>,
     genres |-> <<[name |-> "Classic"]>>,
     published_date |-> "1815-12-23",
     finished_reading_at |-> "2020-06-01T12:30:00Z"]

\* no authors, no genres, a timestamp that is not ISO-8601
DraftBook ==
    [title |-> "a.b", authors |-> <<>>, genres |-> <<>>,
     finished_reading_at |-> "soon"]

\* an author but no title, genre named in lower case, published the day Dune was
UntitledBook ==
    [id |-> "b4", authors |-> <<[name |-> "Dumas"]>>,
     genres |-> <<[name |-> "scifi"]>>, published_date |-> "1965-08-01"]

\* a genre entry that carries no name
NamelessGenreBook ==
    [id |-> "b5", title |-> "Ulysses", genres |-> <<[id |-> "g7"]>>]

\* a genre entry whose name is the empty text
EmptyGenreBook ==
    [id |-> "b6", title |-> "Dune", genres |-> <<[name |-> ""]>>]

\* a genre entry whose name is null
NullGenreBook ==
    [id |-> "b7", title |-> "Emma", genres |-> <<[name |-> None]>>]

(***************************************************************************)
(* Normalisation of one record (the body of the second loop of            *)
(* fetch_all_books).                                                       *)
(***************************************************************************)
\* str.replace("Z", "+00:00") on the timestamps of the records
ReplaceZ(s) ==
    CASE s = "2021-01-01T00:00:00Z" -> "2021-01-01T00:00:00+00:00"
      [] s = "2020-06-01T12:30:00Z" -> "2020-06-01T12:30:00+00:00"
      [] s = "2020-12-01T00:00:00Z" -> "2020-12-01T00:00:00+00:00"
      [] OTHER -> s

\* datetime.fromisoformat: <<seconds since the epoch>>, or <<>> when it raises ValueError
FromIsoFormat(s) ==
    CASE s = "2021-01-01T00:00:00+00:00" -> <<1609459200>>
      [] s = "2020-06-01T12:30:00+00:00" -> <<1591014600>>
      [] s = "2020-12-01T00:00:00+00:00" -> <<1606780800>>
      [] OTHER -> <<>>

\* finished_dt: None unless finished_at is truthy and parses
ParseFinished(finished_at) ==
    IF Truthy(finished_at) THEN FromIsoFormat(ReplaceZ(finished_at)) ELSE <<>>

\* entries[0]["name"] raises KeyError
FirstNameRaises(entries) == entries # <<>> /\ "name" \notin DOMAIN entries[1]

\* the row of record b cannot be built: authors[0]["name"] or genres[0]["name"] raises
RowRaises(b) ==
    \/ FirstNameRaises(Get(b, "authors", <<>>))
    \/ FirstNameRaises(Get(b, "genres", <<>>))

format_row(b) ==
    LET authors == Get(b, "authors", <<>>)
        genres == Get(b, "genres", <<>>)
        finished_at == Get(b, "finished_reading_at", None)
    IN  [title |-> Get(b, "title", None),
         subtitle |-> Get(b, "subtitle", None),
         author |-> IF authors # <<>> THEN authors[1]["name"] ELSE None,
         genre |-> IF genres # <<>> THEN genres[1]["name"] ELSE "Unknown",
         pages |-> Get(b, "page_count", None),
         isbn |-> Get(b, "isbn", None),
         published_date |-> Get(b, "published_date", None),
         imprint |-> Get(b, "imprint", None),
         cover_image |-> Get(b, "cover_image", None),
         book_url |-> IF Truthy(Get(b, "id", None))
                      THEN "https://fable.co/book/" \o b["id"] ELSE None,
         started_reading |-> Get(b, "started_reading_at", None),
         finished_reading |-> finished_at,
         finished_datetime |-> ParseFinished(finished_at)]

\* rows of the DataFrame built from all_books
format_rows(books) == [i \in 1..Len(books) |-> format_row(books[i])]

(***************************************************************************)
(* The server: responses to one GET.                                       *)
(***************************************************************************)
FetchBooks == {DuneBook, NamelessGenreBook, EmptyGenreBook}

\* an entry of `results`: a dict with a nested book, or one without
Items == {[book |-> b] : b \in FetchBooks} \cup {[list_id |-> "33f803be"]}

RECURSIVE SeqsUpTo(_, _)
SeqsUpTo(S, n) ==
    IF n = 0 THEN {<<>>}
    ELSE LET shorter == SeqsUpTo(S, n - 1)
         IN  shorter \cup {Append(s, x) : s \in {t \in shorter : Len(t) = n - 1}, x \in S}

NextValues == {None, BASE_URL, PAGE2_URL}

\* JSON bodies whose results hold at most n entries; either key may be missing
Bodies(n) ==
    {[k \in (IF hasR THEN {"results"} ELSE {}) \cup (IF hasN THEN {"next"} ELSE {})
        |-> IF k = "results" THEN r ELSE nx] :
        hasR \in BOOLEAN, hasN \in BOOLEAN, r \in SeqsUpTo(Items, n), nx \in NextValues}

StatusCodes == {200, 404, 500}

Responses(n) ==
    {[status |-> 200, body |-> b] : b \in Bodies(n)}
    \cup {[status |-> s, body |-> EmptyDict] : s \in StatusCodes \ {200}}

\* the check of the status left out
raise_for_status_never(resp) == FALSE

\* Response.raise_for_status raises HTTPError

raise_for_status(resp) == resp.status >= 400 /\ resp.status < 600

(***************************************************************************)
(* fetch_all_books and the fetch trigger of the script.                    *)
(***************************************************************************)
\* a sequence kept whole, cut to its last MaxBooks entries, cut to its last entry
Whole(s) == s
Window(s) == IF Len(s) <= MaxBooks THEN s ELSE SubSeq(s, Len(s) - MaxBooks + 1, Len(s))
LastOnly(s) == IF Len(s) <= 1 THEN s ELSE <<s[Len(s)]>>
Truncate(how, s) ==
    CASE how = "Whole" -> Whole(s)
      [] how = "Window" -> Window(s)
      [] how = "LastOnly" -> LastOnly(s)

\* the traversal is over: build the rows, store them in the cache, publish the snapshot
Finish(books) ==
    IF \E i \in 1..Len(books) : RowRaises(books[i])
    THEN /\ outcome' = "KeyError"
         /\ ret' = <<>>
         /\ UNCHANGED <<cache, books_df>>
    ELSE /\ outcome' = "returned"
         /\ ret' = <<format_rows(books)>>
         /\ cache' = <<format_rows(books)>>
         /\ books_df' = DF(format_rows(books))

\* the call with a result in the cache, were the cache not consulted
CachedCallRefetches ==
    /\ pc' = "get"
    /\ url' = BASE_URL
    /\ outcome' = "running"
    /\ ret' = <<>>
    /\ UNCHANGED <<cache, books_df>>

\* st.cache_data: the call returns the cached result; books_df is set, st.rerun()
CachedCall ==
    /\ pc' = "idle"
    /\ url' = url
    /\ outcome' = "cache_hit"
    /\ ret' = cache
    /\ books_df' = DF(cache[1])
    /\ UNCHANGED cache

\* the button, shown while there is no snapshot: fetch_all_books is called; with
\* nothing cached the traversal starts at BASE_URL
ClickFetch ==
    /\ pc = "idle"
    /\ books_df = NoDF
    /\ all_books' = <<>>
    /\ requests' = <<>>
    /\ served' = <<>>
    /\ IF cache # <<>>
       THEN CachedCall
       ELSE /\ pc' = "get"
            /\ url' = BASE_URL
            /\ outcome' = "running"
            /\ ret' = <<>>
            /\ UNCHANGED <<cache, books_df>>
    /\ UNCHANGED <<inflight, view, rng, colorLog, paint>>

\* `while url:` with the condition dropped
WhileUrlAlways(u) == TRUE

\* `while url:`
WhileUrl(u) == Truthy(u)

\* requests.get(url) is issued
SendRequest(hist) ==
    /\ pc = "get"
    /\ WhileUrl(url)
    /\ pc' = "wait"
    /\ inflight' = Append(inflight, url)
    /\ requests' = Truncate(hist, Append(requests, url))
    /\ UNCHANGED <<cache, books_df, url, all_books, served, outcome, ret,
                   view, rng, colorLog, paint>>

\* the response arrives: raise_for_status, the page is read, the loop goes on or ends
ReceiveResponse(resp, hist, acc) ==
    /\ pc = "wait"
    /\ inflight # <<>>
    /\ inflight' = Tail(inflight)
    /\ served' = Truncate(hist, Append(served, resp))
    /\ IF raise_for_status(resp)
       THEN /\ pc' = "idle"
            /\ outcome' = "HTTPError"
            /\ ret' = <<>>
            /\ UNCHANGED <<cache, books_df, url, all_books>>
       ELSE LET data == resp.body
                results == Get(data, "results", <<>>)
                books == [i \in 1..Len(results) |-> Get(results[i], "book", EmptyDict)]
                nxt == Get(data, "next", None)
            IN  IF results = <<>>
                THEN /\ pc' = "idle"
                     /\ Finish(all_books)
                     /\ UNCHANGED <<url, all_books>>
                ELSE /\ all_books' = Truncate(acc, all_books \o books)
                     /\ url' = nxt
                     /\ IF WhileUrl(nxt)
                        THEN /\ pc' = "get"
                             /\ UNCHANGED <<cache, books_df, outcome, ret>>
                        ELSE /\ pc' = "idle"
                             /\ Finish(all_books \o books)
    /\ UNCHANGED <<requests, view, rng, colorLog, paint>>

\* a new browser session starts with no snapshot; the cache is shared by all sessions
NewSession ==
    /\ pc = "idle"
    /\ books_df # NoDF
    /\ books_df' = NoDF
    /\ UNCHANGED <<cache, pc, url, all_books, inflight, requests, served, outcome, ret,
                   view, rng, colorLog, paint>>

(***************************************************************************)
(* color_from_genre and the module-level generator of `random`.            *)
(***************************************************************************)
\* hashlib.sha1(genre.encode("utf-8")).hexdigest()
Sha1Hex(genre) ==
    CASE genre = "Classic" -> "130cd7fe33343e419f107596f21d6c9f9d976849"
      [] genre = "SciFi" -> "850ffe335e6f6e21cda3123d44f443ed9c52355f"
      [] genre = "Unknown" -> "bc7819b34ff87570745fbe461e36a16f80e562ce"
      [] genre = "scifi" -> "ed2850140c60dee47b39e71af3d2a3aeaec20b8c"

\* f"#{random.randint(0, 0xFFFFFF):06x}" as draw number r.draws + 1 of a generator
\* seeded with int(r.seed, 16); the generator seeded by the system at import is "os"
RandIntHex(r) ==
    LET draws ==
          CASE r.seed = "130cd7fe33343e419f107596f21d6c9f9d976849" ->
                   <<"#1a7e7f", "#57389b", "#5d6be7", "#7e1814">>
            [] r.seed = "850ffe335e6f6e21cda3123d44f443ed9c52355f" ->
                   <<"#cc3c89", "#965df2", "#4a2195", "#5c2a21">>
            [] r.seed = "bc7819b34ff87570745fbe461e36a16f80e562ce" ->
                   <<"#25162b", "#2e9d1d", "#caf879", "#6eb76b">>
            [] r.seed = "ed2850140c60dee47b39e71af3d2a3aeaec20b8c" ->
                   <<"#655e2c", "#59a1ea", "#f9cc8e", "#50b992">>
            [] OTHER -> <<"#3f9a01", "#b27c55", "#07d1e8", "#e4406b">>
    IN  draws[(r.draws % 4) + 1]

\* the function without random.seed(h): the colour is the generator's next draw
color_from_genre_unseeded(genre, r) ==
    IF ~Truthy(genre)
    THEN [color |-> "#888888", rng |-> r]
    ELSE [color |-> RandIntHex(r), rng |-> [r EXCEPT !.draws = (r.draws + 1) % 4]]

\* color_from_genre called with the generator in state r: the colour returned and
\* the state the generator is left in
color_from_genre(genre, r) ==
    IF ~Truthy(genre)
    THEN [color |-> "#888888", rng |-> r]
    ELSE LET seeded == [seed |-> Sha1Hex(genre), draws |-> 0]
         IN  [color |-> RandIntHex(seeded), rng |-> [seeded EXCEPT !.draws = 1]]

\* {g: color_from_genre(g) for g in unique_genres}: the dict as a sequence of
\* <<genre, colour>> in insertion order, and the generator after the calls
RECURSIVE GenreColors(_, _)
GenreColors(unique_genres, r) ==
    IF unique_genres = <<>>
    THEN [items |-> <<>>, rng |-> r]
    ELSE LET first == color_from_genre(Head(unique_genres), r)
             rest == GenreColors(Tail(unique_genres), first.rng)
         IN  [items |-> <<<<Head(unique_genres), first.color>>>> \o rest.items,
              rng |-> rest.rng]

\* dict.get(key, dflt) on such a sequence
DictGet(items, key, dflt) ==
    IF \E i \in 1..Len(items) : items[i][1] = key
    THEN items[CHOOSE i \in 1..Len(items) : items[i][1] = key][2]
    ELSE dflt

(***************************************************************************)
(* Text: order, characters, case.                                          *)
(***************************************************************************)
\* the texts of the sortable columns in the order of Python's str comparison
TextOrder ==
    <<"", "1815-12-23", "1965-08-01", "Austen", "Classic", "Dumas", "Dune", "Emma",
      "Herbert", "SciFi", "Unknown", "a.b", "scifi">>

Rank(s) == CHOOSE i \in 1..Len(TextOrder) : TextOrder[i] = s

Chars(s) ==
    CASE s = "Dune" -> <<"D", "u", "n", "e">>
      [] s = "Emma" -> <<"E", "m", "m", "a">>
      [] s = "a.b" -> <<"a", ".", "b">>
      [] s = "Herbert" -> <<"H", "e", "r", "b", "e", "r", "t">>
      [] s = "Austen" -> <<"A", "u", "s", "t", "e", "n">>
      [] s = "Dumas" -> <<"D", "u", "m", "a", "s">>
      [] s = "" -> <<>>

\* str.lower() of one character
Lower(c) ==
    CASE c = "A" -> "a"
      [] c = "D" -> "d"
      [] c = "E" -> "e"
      [] c = "H" -> "h"
      [] c = "U" -> "u"
      [] OTHER -> c

\* re.compile(pat) raises re.error: an opening parenthesis that is never closed
RegexInvalid(pat) == \E k \in 1..Len(pat) : pat[k] = "("

\* re.compile(pat, re.IGNORECASE).search(text) of a pattern of literals and dots
RegexSearch(pat, text) ==
    \E start \in 0..(Len(text) - Len(pat)) :
        \A k \in 1..Len(pat) :
            pat[k] = "." \/ Lower(pat[k]) = Lower(text[start + k])

\* Series.str.contains(pat, case=False, na=False) for one value (regex=True by default)
StrContains(value, pat) == value # None /\ RegexSearch(pat, Chars(value))

(***************************************************************************)
(* The run of the script with a snapshot present: filters, sort, colours.  *)
(***************************************************************************)
SortKeys == {"title", "author", "published_date", "finished_reading"}
ViewModes == {"Table View", "Gallery View"}

GenresOf(df, idxs) == {df[idxs[i]].genre : i \in 1..Len(idxs)}

Indices(df) == [i \in 1..Len(df) |-> i]

\* sorted(genres) raises TypeError when None is compared with a str
SortedRaises(S) == None \in S /\ S # {None}

RECURSIVE Sorted(_)
Sorted(S) ==
    IF S = {} THEN <<>>
    ELSE IF S = {None} THEN <<None>>
    ELSE LET m == CHOOSE x \in S : \A y \in S : Rank(x) <= Rank(y)
         IN  <<m>> \o Sorted(S \ {m})

\* the value sort_values compares for a row: <<>> when missing (NaN / None / NaT)
SortValue(row, sort_by) ==
    IF sort_by = "finished_reading" THEN row.finished_datetime
    ELSE IF row[sort_by] = None THEN <<>> ELSE <<Rank(row[sort_by])>>

\* the sort with the missing values first when descending
SortOrdersNaFollowsDirection(df, idxs, sort_by, ascending) ==
    LET isna(i) == SortValue(df[i], sort_by) = <<>>
        val(i) == SortValue(df[i], sort_by)[1]
        nan_idx == SelectSeq(idxs, isna)
        non_nan == SelectSeq(idxs, LAMBDA i : ~isna(i))
        n == Len(non_nan)
        perms == {p \in [1..n -> {non_nan[k] : k \in 1..n}] :
                    /\ \A a, b \in 1..n : a # b => p[a] # p[b]
                    /\ \A a, b \in 1..n : a < b =>
                          IF ascending THEN val(p[a]) <= val(p[b])
                                       ELSE val(p[a]) >= val(p[b])}
    IN  {IF ascending THEN p \o nan_idx ELSE nan_idx \o p : p \in perms}

\* DataFrame.sort_values(by, ascending, na_position="last") with the default
\* kind="quicksort": the missing values are taken out and put back last in their
\* order; the others are sorted, equal values in any order (quicksort is not stable)
SortOrders(df, idxs, sort_by, ascending) ==
    LET isna(i) == SortValue(df[i], sort_by) = <<>>
        val(i) == SortValue(df[i], sort_by)[1]
        nan_idx == SelectSeq(idxs, isna)
        non_nan == SelectSeq(idxs, LAMBDA i : ~isna(i))
        n == Len(non_nan)
        perms == {p \in [1..n -> {non_nan[k] : k \in 1..n}] :
                    /\ \A a, b \in 1..n : a # b => p[a] # p[b]
                    /\ \A a, b \in 1..n : a < b =>
                          IF ascending THEN val(p[a]) <= val(p[b])
                                       ELSE val(p[a]) >= val(p[b])}
    IN  {p \o nan_idx : p \in perms}

\* the widgets of the sidebar and the view toggle, with their initial values
DefaultWidgets ==
    [search |-> <<>>, selected_genres |-> {}, sort_by |-> "title",
     ascending |-> TRUE, view_mode |-> "Table View"]

NoView ==
    [ran |-> FALSE, widgets |-> DefaultWidgets, error |-> None,
     matched |-> <<>>, filtered_df |-> <<>>]

NoPaint ==
    [error |-> None, genre_colors |-> <<>>, legend |-> <<>>, table |-> <<>>,
     excel |-> <<>>, gallery |-> <<>>]

\* the run stops with an exception before anything is drawn
Aborted(w, exception) ==
    /\ view' = [ran |-> TRUE, widgets |-> w, error |-> exception,
                matched |-> <<>>, filtered_df |-> <<>>]
    /\ paint' = NoPaint
    /\ UNCHANGED <<rng, colorLog>>

\* the colours of the log: kept, or not recorded
KeepLog(log, items) == log \cup {items[i] : i \in 1..Len(items)}
NoLog(log, items) == log
Logged(logging, log, items) ==
    IF logging = "KeepLog" THEN KeepLog(log, items) ELSE NoLog(log, items)

\* lines 169-224: genre_colors, the legend, then the table and the export or the gallery
Draw(w, matched, filtered, logging) ==
    \E colors \in {GenreColors(Sorted(GenresOf(books_df[1], filtered)), rng)} :
    LET df == books_df[1]
        genre_colors == colors.items
        genre(k) == df[filtered[k]].genre
    IN  /\ view' = [ran |-> TRUE, widgets |-> w, error |-> None,
                    matched |-> matched, filtered_df |-> filtered]
        /\ rng' = colors.rng
        /\ colorLog' = Logged(logging, colorLog, genre_colors)
        /\ paint' =
             IF genre_colors = <<>>
             THEN [NoPaint EXCEPT !.error = "StreamlitAPIException"]
             ELSE IF w.view_mode = "Table View"
             THEN [error |-> None, genre_colors |-> genre_colors, legend |-> genre_colors,
                   table |-> [k \in 1..Len(filtered) |->
                                 DictGet(genre_colors, genre(k), "#444444")],
                   excel |-> [k \in 1..Len(filtered) |->
                                 DictGet(genre_colors, genre(k), "#FFFFFF")],
                   gallery |-> <<>>]
             ELSE [error |-> None, genre_colors |-> genre_colors, legend |-> genre_colors,
                   table |-> <<>>, excel |-> <<>>,
                   gallery |-> [k \in 1..Len(filtered) |->
                                   DictGet(genre_colors, genre(k), "#888888")]]

\* lines 152-156: the rows whose title or author matches the search text
Search(df, search) ==
    IF search # <<>>
    THEN SelectSeq(Indices(df), LAMBDA i : \/ StrContains(df[i].title, search)
                                           \/ StrContains(df[i].author, search))
    ELSE Indices(df)

\* lines 157-158: the rows of the selected genres
GenreFilter(df, idxs, selected_genres) ==
    IF selected_genres # {}
    THEN SelectSeq(idxs, LAMBDA i : df[i].genre \in selected_genres)
    ELSE idxs

\* lines 137-230: one run of the script with the widgets in state w
RunScript(w, logging) ==
    /\ pc = "idle"
    /\ books_df # NoDF
    /\ UNCHANGED fetchVars
    /\ LET df == books_df[1]
       IN  IF df = <<>>
           THEN Aborted(w, "KeyError")
           ELSE IF SortedRaises(GenresOf(df, Indices(df)))
           THEN Aborted(w, "TypeError")
           ELSE IF w.search # <<>> /\ RegexInvalid(w.search)
           THEN Aborted(w, "re.error")
           ELSE \E matched \in {Search(df, w.search)} :
                \E selected \in {GenreFilter(df, matched, w.selected_genres)} :
                \E filtered \in SortOrders(df, selected, w.sort_by, w.ascending) :
                    Draw(w, matched, filtered, logging)

\* the user changes one widget, which runs the script again
SetSearch(text, logging) == RunScript([view.widgets EXCEPT !.search = text], logging)
SelectGenres(genres, logging) ==
    /\ books_df # NoDF
    /\ genres \subseteq GenresOf(books_df[1], Indices(books_df[1]))
    /\ RunScript([view.widgets EXCEPT !.selected_genres = genres], logging)
SetSortBy(key, logging) == RunScript([view.widgets EXCEPT !.sort_by = key], logging)
SetAscending(flag, logging) == RunScript([view.widgets EXCEPT !.ascending = flag], logging)
SetViewMode(mode, logging) == RunScript([view.widgets EXCEPT !.view_mode = mode], logging)

FetchInit ==
    /\ cache = <<>>
    /\ books_df = NoDF
    /\ pc = "idle"
    /\ url = None
    /\ all_books = <<>>
    /\ inflight = <<>>
    /\ requests = <<>>
    /\ served = <<>>
    /\ outcome = "none"
    /\ ret = <<>>

Init ==
    /\ FetchInit
    /\ view = NoView
    /\ rng = [seed |-> "os", draws |-> 0]
    /\ colorLog = {}
    /\ paint = NoPaint

\* the server of the safety specification serves at most MaxBooks records to one fetch
Receive == \E resp \in Responses(MaxBooks - Len(all_books)) : ReceiveResponse(resp, "Whole", "Whole")

Send == SendRequest("Whole")

Next ==
    \/ ClickFetch
    \/ Send
    \/ Receive
    \/ NewSession

Spec == Init /\ [][Next]_vars

(***************************************************************************)
(* The view: a session that holds a fetched snapshot; the user works the   *)
(* widgets, each change running the script again.                          *)
(***************************************************************************)
ViewBooks == {DuneBook, EmmaBook, DraftBook, UntitledBook}

\* the snapshots of at most n records of books, no record twice
Snapshots(books, n) ==
    {DF(format_rows(bs)) :
        bs \in {t \in SeqsUpTo(books, n) : \A a, b \in 1..Len(t) : a # b => t[a] # t[b]}}

SearchTexts == {<<>>, <<"d", "U">>, <<"e">>, <<".">>, <<"(">>}

GenreNames == {"SciFi", "Classic", "Unknown", "scifi", "", None}

\* the state a completed fetch of snapshot df leaves behind
Fetched(df) ==
    /\ books_df = df
    /\ cache = df
    /\ ret = df
    /\ outcome = "returned"
    /\ pc = "idle"
    /\ url = None
    /\ all_books = <<>>
    /\ inflight = <<>>
    /\ requests = <<>>
    /\ served = <<>>
    /\ view = NoView
    /\ rng = [seed |-> "os", draws |-> 0]
    /\ colorLog = {}
    /\ paint = NoPaint

ViewInit == \E df \in Snapshots(ViewBooks, MaxRows) : Fetched(df)

ViewRun == RunScript(view.widgets, "NoLog")
ViewSearch == \E text \in SearchTexts : SetSearch(text, "NoLog")
ViewGenres == \E genres \in {{}} \cup {{g} : g \in GenreNames} : SelectGenres(genres, "NoLog")
ViewSortBy == \E key \in SortKeys : SetSortBy(key, "NoLog")
ViewAscending == \E flag \in BOOLEAN : SetAscending(flag, "NoLog")
ViewMode == \E mode \in ViewModes : SetViewMode(mode, "NoLog")

ViewNext ==
    \/ ViewRun
    \/ ViewSearch
    \/ ViewGenres
    \/ ViewSortBy
    \/ ViewAscending
    \/ ViewMode

SpecView == ViewInit /\ [][ViewNext]_vars

(***************************************************************************)
(* The colours: the same session, with every colour color_from_genre has   *)
(* returned kept in colorLog.                                              *)
(***************************************************************************)
ColorBooks == {DuneBook, UntitledBook, DraftBook, EmptyGenreBook, NullGenreBook}

ColorInit == \E df \in Snapshots(ColorBooks, MaxRows) : Fetched(df)

ColorRun == RunScript(view.widgets, "KeepLog")
ColorGenres == \E genres \in SUBSET GenreNames : SelectGenres(genres, "KeepLog")
ColorMode == \E mode \in ViewModes : SetViewMode(mode, "KeepLog")

ColorNext ==
    \/ ColorRun
    \/ ColorGenres
    \/ ColorMode

SpecColor == ColorInit /\ [][ColorNext]_vars

(***************************************************************************)
(* The traversal under fairness.  An endless traversal accumulates without *)
(* bound, so here all_books is cut to its last MaxBooks records and the    *)
(* histories to their last entry: an endless traversal is then a cycle of  *)
(* finitely many states.  Only the termination and the sequencing of the   *)
(* requests are read off this specification.  The script runs on once it   *)
(* is started, and every request receives a response.                      *)
(***************************************************************************)
FairPageLen == 1

FairItems == {[book |-> DuneBook], [list_id |-> "33f803be"]}

FairResponses ==
    {r \in Responses(FairPageLen) :
        \A i \in 1..Len(Get(r.body, "results", <<>>)) : r.body["results"][i] \in FairItems}

FairSend == SendRequest("LastOnly")

FairReceive == \E resp \in FairResponses : ReceiveResponse(resp, "LastOnly", "Window")

FairNext ==
    \/ ClickFetch
    \/ FairSend
    \/ FairReceive
    \/ NewSession

FairSpec ==
    /\ Init
    /\ [][FairNext]_vars
    /\ WF_vars(FairSend)
    /\ WF_vars(FairReceive)

(***************************************************************************)
(* Properties of the fetch.                                                *)
(***************************************************************************)
IsSuccess(resp) == resp.status \in 200..299

PageRecords(resp) ==
    LET results == Get(resp.body, "results", <<>>)
    IN  [i \in 1..Len(results) |-> Get(results[i], "book", EmptyDict)]

\* the records of pages 1..n of the current call, page after page
RECURSIVE VisitedRecords(_)
VisitedRecords(n) ==
    IF n = 0 THEN <<>> ELSE VisitedRecords(n - 1) \o PageRecords(served[n])

\* page i is followed by another page: it has records and names a next page
PageContinues(resp) ==
    /\ IsSuccess(resp)
    /\ Get(resp.body, "results", <<>>) # <<>>
    /\ Get(resp.body, "next", None) \notin {None, ""}

\* the pages visited are the base URL page, then each page named by the previous
\* page's next, up to the first page that does not continue
VisitedChain ==
    /\ Len(requests) = Len(served)
    /\ requests # <<>> /\ requests[1] = BASE_URL
    /\ \A i \in 1..(Len(served) - 1) :
          PageContinues(served[i]) /\ requests[i + 1] = served[i].body["next"]
    /\ ~PageContinues(served[Len(served)])

CallEnded == pc = "idle" /\ outcome \in {"returned", "KeyError", "HTTPError"}

\* C1: a call whose pages were all served with a success status returns exactly one
\* row per record of the pages it visited, in page order and then in-page order.
C1_OneRowPerRecord ==
    (CallEnded /\ \A i \in 1..Len(served) : IsSuccess(served[i])) =>
        /\ VisitedChain
        /\ outcome = "returned"
        /\ ret = <<[i \in 1..Len(VisitedRecords(Len(served)))
                      |-> format_row(VisitedRecords(Len(served))[i])]>>

C3_RefetchAvailable ==
    (pc = "idle" /\ books_df # NoDF) => ENABLED (ClickFetch /\ pc' = "get")

C7_GenreNeverEmpty ==
    books_df # NoDF =>
        \A i \in 1..Len(books_df[1]) : books_df[1][i].genre \notin {None, ""}

\* C8: normalisation never raises: no call ends in an error of the row formatting.
C8_NormalizationTotal == outcome # "KeyError"

\* C10: every fetch that has been started eventually ends.
C10_EveryFetchEnds == (pc # "idle") ~> (pc = "idle")

\* C10 amended: every started fetch ends provided that, from some point on, the
\* server serves no page that has records and names a next page; and requests are
\* issued one at a time, each after the previous response has been read.
C10_FiniteChainEnds ==
    /\ (<>[](served = <<>> \/ ~PageContinues(served[Len(served)]))) =>
           ((pc # "idle") ~> (pc = "idle"))
    /\ [](Len(inflight) <= 1)
    /\ [](pc = "get" <=> (outcome = "running" /\ inflight = <<>>))
    /\ [](pc = "wait" <=> (outcome = "running" /\ Len(inflight) = 1))

C10_Witness ==
    /\ pc = "idle"
    /\ outcome = "returned"
    /\ Len(all_books) >= 2

(***************************************************************************)
(* Properties of the view and of the colours.                              *)
(***************************************************************************)
ViewShown == view.ran /\ view.error = None

\* the rows the filters keep, in snapshot order
Kept ==
    SelectSeq(view.matched,
              LAMBDA i : \/ view.widgets.selected_genres = {}
                         \/ books_df[1][i].genre \in view.widgets.selected_genres)

\* C5: sorted by finished_reading, the rows without a finished_datetime come last in
\* their original order, whatever the direction, and the dated rows are in
\* chronological order when ascending, in reverse chronological order otherwise.
C5_MissingLast ==
    (ViewShown /\ view.widgets.sort_by = "finished_reading") =>
        LET df == books_df[1]
            f == view.filtered_df
            absent(k) == df[f[k]].finished_datetime = <<>>
            at(k) == df[f[k]].finished_datetime[1]
        IN  /\ Len(f) = Len(Kept)
            /\ {f[k] : k \in 1..Len(f)} = {Kept[k] : k \in 1..Len(Kept)}
            /\ \A a, b \in 1..Len(f) :
                  a < b =>
                    /\ absent(a) => absent(b)
                    /\ (absent(a) /\ absent(b)) => f[a] < f[b]
                    /\ (~absent(a) /\ ~absent(b)) =>
                          IF view.widgets.ascending THEN at(a) <= at(b) ELSE at(a) >= at(b)

\* descending, two rows without a date and a dated row that came after them
C5_Witness ==
    /\ ViewShown
    /\ view.widgets.sort_by = "finished_reading"
    /\ ~view.widgets.ascending
    /\ view.filtered_df = <<3, 1, 2>>
    /\ books_df[1][3].finished_datetime # <<>>

\* the text occurs in the value as a literal substring, case ignored
LiteralContains(value, text) ==
    /\ value # None
    /\ \E start \in 0..(Len(Chars(value)) - Len(text)) :
          \A k \in 1..Len(text) : Lower(text[k]) = Lower(Chars(value)[start + k])

\* C6: for every non-empty search text the filter does not fail and keeps exactly
\* the rows whose title or author contains the text literally, case ignored, in order.
C6_LiteralSearch ==
    (view.ran /\ view.widgets.search # <<>> /\ books_df[1] # <<>>) =>
        /\ view.error = None
        /\ view.matched =
              SelectSeq(Indices(books_df[1]),
                        LAMBDA i : \/ LiteralContains(books_df[1][i].title, view.widgets.search)
                                   \/ LiteralContains(books_df[1][i].author, view.widgets.search))

\* C9: every call of color_from_genre for one genre returns the same colour, whatever
\* was called before; an empty or absent genre gets #888888; and the legend, the
\* table, the export and the gallery show that colour for each row of the view.
C9_SameGenreSameColor ==
    /\ \A x, y \in colorLog : x[1] = y[1] => x[2] = y[2]
    /\ \A x \in colorLog : x[1] \in {None, ""} => x[2] = "#888888"
    /\ (ViewShown /\ paint.error = None) =>
          \A k \in 1..Len(view.filtered_df) :
              LET g == books_df[1][view.filtered_df[k]].genre
              IN  \E x \in colorLog :
                    /\ x[1] = g
                    /\ \E j \in 1..Len(paint.legend) : paint.legend[j] = x
                    /\ view.widgets.view_mode = "Table View" =>
                          (paint.table[k] = x[2] /\ paint.excel[k] = x[2])
                    /\ view.widgets.view_mode = "Gallery View" => paint.gallery[k] = x[2]

\* a view of two genres drawn after another genre was coloured in between
C9_Witness ==
    /\ ViewShown
    /\ paint.error = None
    /\ Len(paint.table) >= 2
    /\ Cardinality({paint.legend[j][1] : j \in 1..Len(paint.legend)}) >= 2
    /\ Cardinality(colorLog) >= 3
    /\ \E x \in colorLog : x[2] = "#888888"

====
